---- MODULE Spec2Model ----
(***************************************************************************)
(* Model of src/IMOMEPC83.py: the IMO MEPC 83 fuel compliance calculator.  *)
(*                                                                         *)
(* Numbers.  The Python code computes in binary floating point.  The model *)
(* computes the same expressions in exact decimal fixed point:             *)
(*   - tonnes consumed, LHV and prices are integers (t, MJ/t, $/t);        *)
(*   - a GFI is an integer count of 1e-4 gCO2eq/MJ (93.30 is 933000);      *)
(*   - a reduction percentage is an integer count of 0.1 % (12.4 is 124);  *)
(*   - an emission (t CO2eq) or an amount ($) is a record [w, f] that      *)
(*     stands for w + f / Million with 0 <= f < Million (floor form, so a  *)
(*     negative amount has w < 0).                                         *)
(* Every input of the model makes tonnes * LHV a multiple of 10^5 MJ, so   *)
(* every value the code computes is represented exactly.                   *)
(***************************************************************************)
EXTENDS Integers, Sequences, FiniteSets, TLC

VARIABLES
    \* frame of one call of calculate_compliance_costs
    fuel_name, fuel_data, tonnes_consumed, pricing,
    pc, total_energy_mj_y, attained_co2eq_t_y, summary_header,
    year_i, year_locals, results_list, annual_summary_parts,
    ret, outcome,
    \* the Streamlit script: st.session_state, the values of the keyed input
    \* widgets, and what the last run of the script did
    session_state, compare_fuels_multi, tonnes_consumed_input, price_inputs,
    last_event, messages, run_error

frame == <<fuel_name, fuel_data, tonnes_consumed, pricing,
           pc, total_energy_mj_y, attained_co2eq_t_y, summary_header,
           year_i, year_locals, results_list, annual_summary_parts,
           ret, outcome>>

session == <<session_state, compare_fuels_multi, tonnes_consumed_input,
             price_inputs, last_event, messages, run_error>>

vars == <<frame, session>>

(***************************************************************************)
(* Configuration and data (lines 8-38)                                     *)
(***************************************************************************)

\* LHV in MJ/t, GFI in 1e-4 gCO2eq/MJ
PREDEFINED_FUELS ==
    [n \in {"HFO", "LNG", "B24", "Bio-Diesel(B100)", "e-Diesel", "e-Ammonia", "bio-Methanol"} |->
        CASE n = "HFO"              -> [LHV |-> 40200, GFI |-> 933000]
          [] n = "LNG"              -> [LHV |-> 48000, GFI |-> 680000]
          [] n = "B24"              -> [LHV |-> 41500, GFI |-> 750000]
          [] n = "Bio-Diesel(B100)" -> [LHV |-> 37200, GFI |-> 310000]
          [] n = "e-Diesel"         -> [LHV |-> 44000, GFI |-> 370000]
          [] n = "e-Ammonia"        -> [LHV |-> 18600, GFI |-> 30000]
          [] n = "bio-Methanol"     -> [LHV |-> 19900, GFI |-> 50000]]

BENCHMARK_FUEL == "HFO"

\* the dict's insertion order without the benchmark
COMPARISON_FUEL_OPTIONS ==
    <<"LNG", "B24", "Bio-Diesel(B100)", "e-Diesel", "e-Ammonia", "bio-Methanol">>

\* 93.3 gCO2eq/MJ, in 0.1 gCO2eq/MJ
REFERENCE_GFI == 933

\* faulty variant of the schedule: the pair of 2031 swapped
TARGET_REDUCTIONS_2031_mut ==
    [y \in 2028..2035 |->
        CASE y = 2028 -> <<40, 170>>   [] y = 2029 -> <<60, 190>>
          [] y = 2030 -> <<80, 210>>   [] y = 2031 -> <<254, 124>>
          [] y = 2032 -> <<168, 298>>  [] y = 2033 -> <<212, 342>>
          [] y = 2034 -> <<256, 386>>  [] y = 2035 -> <<300, 430>>]

\* Year -> <<base reduction, direct reduction>>, in 0.1 %
TARGET_REDUCTIONS ==
    [y \in 2028..2035 |->
        CASE y = 2028 -> <<40, 170>>   [] y = 2029 -> <<60, 190>>
          [] y = 2030 -> <<80, 210>>   [] y = 2031 -> <<124, 254>>
          [] y = 2032 -> <<168, 298>>  [] y = 2033 -> <<212, 342>>
          [] y = 2034 -> <<256, 386>>  [] y = 2035 -> <<300, 430>>]

YEARS == <<2028, 2029, 2030, 2031, 2032, 2033, 2034, 2035>>

T1_FIXED_PRICE == 100
T2_FIXED_PRICE == 380

(***************************************************************************)
(* Exact decimal arithmetic standing for the float operators               *)
(***************************************************************************)

\* the divisor 1_000_000 of lines 50, 72, 73 and 136-139
Million == 1000000

DecZero == [w |-> 0, f |-> 0]

DecIsZero(a) == a.w = 0 /\ a.f = 0

\* a > b
DecGt(a, b) == a.w > b.w \/ (a.w = b.w /\ a.f > b.f)

DecGe(a, b) == a = b \/ DecGt(a, b)

\* a - b
DecSub(a, b) ==
    IF a.f >= b.f THEN [w |-> a.w - b.w, f |-> a.f - b.f]
                  ELSE [w |-> a.w - b.w - 1, f |-> a.f - b.f + Million]

\* a + b
DecAdd(a, b) ==
    IF a.f + b.f < Million THEN [w |-> a.w + b.w, f |-> a.f + b.f]
                           ELSE [w |-> a.w + b.w + 1, f |-> a.f + b.f - Million]

\* abs(a)
DecAbs(a) == IF a.w < 0 THEN DecSub(DecZero, a) ELSE a

\* a * n for an integer price n
DecMulInt(a, n) ==
    LET p == a.f * n
    IN  [w |-> a.w * n + (p \div Million), f |-> p % Million]

\* a / 1_000_000, exact: m millions, u units, n millionths of a unit
DecPerMillion(a) == [m |-> a.w \div Million, u |-> a.w % Million, n |-> a.f]

\* faulty variant: 1 + pct / 100.0
TargetGfi_sign_mut(reduction_pct) == REFERENCE_GFI * (1000 + reduction_pct)

\* lines 70-71: REFERENCE_GFI * (1 - pct / 100.0), in 1e-4 gCO2eq/MJ
TargetGfi(reduction_pct) == REFERENCE_GFI * (1000 - reduction_pct)

\* energy_mj * gfi / 1_000_000 in t CO2eq, gfi in 1e-4 gCO2eq/MJ:
\* energy_mj * gfi / 10^10, computed in pieces that fit a machine integer
Co2eqTonnes(energy_mj, gfi) ==
    LET e5  == energy_mj \div 100000
        a   == e5 * (gfi \div 1000)
        b   == e5 * (gfi % 1000)
        low == (a % 100) * 10000 + b * 10
    IN  [w |-> (a \div 100) + (low \div Million), f |-> low % Million]

(***************************************************************************)
(* calculate_compliance_costs (lines 42-144)                               *)
(***************************************************************************)

\* faulty variant of the guard: < for <=
InputRejected_strict_mut(fd, tonnes) ==
    IF fd = <<>> THEN TRUE ELSE (tonnes < 0 \/ fd[1].LHV < 0)

\* line 44: not fuel_data or tonnes_consumed <= 0 or fuel_data["LHV"] <= 0;
\* an optional fuel_data is <<>> (None) or <<[LHV |-> l, GFI |-> g]>>
InputRejected(fd, tonnes) ==
    IF fd = <<>> THEN TRUE ELSE (tonnes <= 0 \/ fd[1].LHV <= 0)

\* pd.DataFrame() and "" (line 45)
EmptyDataFrame == <<>>
EmptySummary == [header |-> <<>>, years |-> <<>>]

\* lines 54-63: the values the header text interpolates
SummaryHeader(name, fd, tonnes, prices, energy) ==
    [fuel_name |-> name, tonnes_consumed |-> tonnes, attained_gfi |-> fd[1].GFI,
     attained_lhv |-> fd[1].LHV, total_energy_mj_y |-> energy,
     reference_gfi |-> REFERENCE_GFI, surplus |-> prices.surplus,
     t1_fixed |-> T1_FIXED_PRICE, t2_fixed |-> T2_FIXED_PRICE,
     t1_user |-> prices.t1_user, t2_user |-> prices.t2_user]

\* faulty variant: year < 2030
T1Price_lt_mut(year, prices) == IF year < 2030 THEN T1_FIXED_PRICE ELSE prices.t1_user

\* line 75
T1Price(year, prices) == IF year <= 2030 THEN T1_FIXED_PRICE ELSE prices.t1_user

\* line 76
T2Price(year, prices) == IF year <= 2030 THEN T2_FIXED_PRICE ELSE prices.t2_user

\* faulty variant: >= for >
OverDirect_ge_mut(attained, target_direct) == DecGe(attained, target_direct)

\* line 84: attained_co2eq_t_y > target_co2_direct_t_y
OverDirect(attained, target_direct) == DecGt(attained, target_direct)

\* faulty variant: the tier-2 deficit taken against the direct target
DeficitCase_t2_direct_mut(attained, target_direct, target_base, t1_price, t2_price) ==
    LET over_base == DecGt(attained, target_base)
        d1 == DecSub(attained, target_direct)
        d2 == IF over_base THEN DecSub(attained, target_direct) ELSE DecZero
    IN  [deficit_t1_co2 |-> d1, deficit_t2_co2 |-> d2, surplus_co2 |-> DecZero,
         cost_t1 |-> DecMulInt(d1, t1_price), cost_t2 |-> DecMulInt(d2, t2_price),
         revenue_surplus |-> DecZero,
         compliance_status |->
             IF over_base THEN "Deficit vs Direct Target & Base Target"
                          ELSE "Deficit vs Direct Target"]

\* lines 85-92: the deficit branch
DeficitCase(attained, target_direct, target_base, t1_price, t2_price) ==
    LET over_base == DecGt(attained, target_base)
        d1 == DecSub(attained, target_direct)
        d2 == IF over_base THEN DecSub(attained, target_base) ELSE DecZero
    IN  [deficit_t1_co2 |-> d1, deficit_t2_co2 |-> d2, surplus_co2 |-> DecZero,
         cost_t1 |-> DecMulInt(d1, t1_price), cost_t2 |-> DecMulInt(d2, t2_price),
         revenue_surplus |-> DecZero,
         compliance_status |->
             IF over_base THEN "Deficit vs Direct Target & Base Target"
                          ELSE "Deficit vs Direct Target"]

\* faulty variant: the surplus subtraction the wrong way round
SurplusCase_sign_mut(attained, target_direct, target_base, su_price) ==
    LET s == DecSub(attained, target_direct)
    IN  [deficit_t1_co2 |-> DecZero, deficit_t2_co2 |-> DecZero, surplus_co2 |-> s,
         cost_t1 |-> DecZero, cost_t2 |-> DecZero,
         revenue_surplus |-> DecMulInt(s, su_price),
         compliance_status |->
             IF DecGt(attained, target_base)
             THEN "Surplus vs Direct Target (Warning: Exceeds Base Target)"
             ELSE "Surplus vs Direct Target"]

\* lines 94-99: the surplus branch
SurplusCase(attained, target_direct, target_base, su_price) ==
    LET s == DecSub(target_direct, attained)
    IN  [deficit_t1_co2 |-> DecZero, deficit_t2_co2 |-> DecZero, surplus_co2 |-> s,
         cost_t1 |-> DecZero, cost_t2 |-> DecZero,
         revenue_surplus |-> DecMulInt(s, su_price),
         compliance_status |->
             IF DecGt(attained, target_base)
             THEN "Surplus vs Direct Target (Warning: Exceeds Base Target)"
             ELSE "Surplus vs Direct Target"]

\* lines 79-99: the six amounts and the status after the branch
ComplianceLogic(attained, target_direct, target_base, t1_price, t2_price, su_price) ==
    IF OverDirect(attained, target_direct)
    THEN DeficitCase(attained, target_direct, target_base, t1_price, t2_price)
    ELSE SurplusCase(attained, target_direct, target_base, su_price)

\* faulty variant: the tier-2 cost added
NetOutcome_sign_mut(revenue_surplus, cost_t1, cost_t2) ==
    DecAdd(DecSub(revenue_surplus, cost_t1), cost_t2)

\* line 101
NetOutcome(revenue_surplus, cost_t1, cost_t2) ==
    DecSub(DecSub(revenue_surplus, cost_t1), cost_t2)

\* lines 69-101: the locals of one iteration of the loop over YEARS
YearLocals(year, energy, attained, prices) ==
    LET pct == TARGET_REDUCTIONS[year]
        target_gfi_base == TargetGfi(pct[1])
        target_gfi_direct == TargetGfi(pct[2])
        target_base == Co2eqTonnes(energy, target_gfi_base)
        target_direct == Co2eqTonnes(energy, target_gfi_direct)
        t1 == T1Price(year, prices)
        t2 == T2Price(year, prices)
        c == ComplianceLogic(attained, target_direct, target_base, t1, t2, prices.surplus)
    IN  [year |-> year,
         base_reduction_pct |-> pct[1], direct_reduction_pct |-> pct[2],
         target_gfi_base |-> target_gfi_base, target_gfi_direct |-> target_gfi_direct,
         target_co2_base_t_y |-> target_base, target_co2_direct_t_y |-> target_direct,
         attained_co2eq_t_y |-> attained,
         t1_price |-> t1, t2_price |-> t2, surplus_unit_price |-> prices.surplus,
         deficit_t1_co2 |-> c.deficit_t1_co2, deficit_t2_co2 |-> c.deficit_t2_co2,
         surplus_co2 |-> c.surplus_co2,
         cost_t1 |-> c.cost_t1, cost_t2 |-> c.cost_t2,
         revenue_surplus |-> c.revenue_surplus,
         compliance_status |-> c.compliance_status,
         net_outcome |-> NetOutcome(c.revenue_surplus, c.cost_t1, c.cost_t2)]

\* one line of a year's text: a label, an amount and the price quoted with it
TextLine(label, amount, price) == [label |-> label, amount |-> amount, price |-> price]

\* lines 110-121: the lines that depend on the sign of net_outcome
OutcomeLines(l) ==
    IF l.net_outcome.w < 0
    THEN (IF DecGt(l.deficit_t1_co2, DecZero)
            THEN <<TextLine("Tier 1 Deficit", l.deficit_t1_co2, 0)>> ELSE <<>>)
         \o (IF DecGt(l.deficit_t2_co2, DecZero)
            THEN <<TextLine("Tier 2 Deficit", l.deficit_t2_co2, 0)>> ELSE <<>>)
         \o <<TextLine("Net Outcome (Cost)", DecAbs(l.net_outcome), 0)>>
         \o (IF DecGt(l.cost_t1, DecZero)
            THEN <<TextLine("T1 RU Cost", l.cost_t1, l.t1_price)>> ELSE <<>>)
         \o (IF DecGt(l.cost_t2, DecZero)
            THEN <<TextLine("T2 RU Cost", l.cost_t2, l.t2_price)>> ELSE <<>>)
    ELSE IF DecGt(l.net_outcome, DecZero)
    THEN <<TextLine("Surplus vs Direct", l.surplus_co2, 0),
           TextLine("Net Outcome (Potential Revenue)", l.net_outcome, 0),
           TextLine("Potential SU Revenue", l.revenue_surplus, l.surplus_unit_price)>>
    ELSE <<TextLine("Net Outcome: $0.00", DecZero, 0)>>

\* lines 104-122: the values the text of one year interpolates (the rounding
\* of the number formats to the displayed digits is not modelled)
YearText(l) ==
    [year |-> l.year,
     target_gfi_base |-> l.target_gfi_base, base_reduction_pct |-> l.base_reduction_pct,
     target_gfi_direct |-> l.target_gfi_direct, direct_reduction_pct |-> l.direct_reduction_pct,
     target_co2_base_t_y |-> l.target_co2_base_t_y,
     target_co2_direct_t_y |-> l.target_co2_direct_t_y,
     attained_co2eq_t_y |-> l.attained_co2eq_t_y,
     status |-> l.compliance_status,
     lines |-> OutcomeLines(l)]

\* lines 126-132: the dict appended to results_list
ResultRow(name, l) ==
    [Year |-> l.year, Fuel |-> name,
     NetOutcome |-> l.net_outcome, RevenueSurplus |-> l.revenue_surplus,
     CostT1 |-> l.cost_t1, CostT2 |-> l.cost_t2, Status |-> l.compliance_status]

\* lines 134-139: a row of results_df, with the four "Millions USD" columns
DataFrameRow(r) ==
    [Year |-> r.Year, Fuel |-> r.Fuel,
     NetOutcome |-> r.NetOutcome, RevenueSurplus |-> r.RevenueSurplus,
     CostT1 |-> r.CostT1, CostT2 |-> r.CostT2, Status |-> r.Status,
     NetOutcomeM |-> DecPerMillion(r.NetOutcome),
     RevenueSurplusM |-> DecPerMillion(r.RevenueSurplus),
     CostT1M |-> DecPerMillion(r.CostT1), CostT2M |-> DecPerMillion(r.CostT2)]

\* line 134: pd.DataFrame(results_list) and the added columns
RECURSIVE DataFrame(_)
DataFrame(rows) ==
    IF rows = <<>> THEN <<>>
    ELSE <<DataFrameRow(Head(rows))>> \o DataFrame(Tail(rows))

\* lines 67-132 run for the years YEARS[i..]: [results_list, annual_summary_parts]
RECURSIVE YearLoop(_, _, _, _, _, _)
YearLoop(i, name, energy, attained, prices, lists) ==
    IF i > Len(YEARS) THEN lists
    ELSE YearLoop(i + 1, name, energy, attained, prices,
             CHOOSE next \in
                 {[results_list |-> Append(lists.results_list, ResultRow(name, l)),
                   annual_summary_parts |-> Append(lists.annual_summary_parts, YearText(l))]
                      : l \in {YearLocals(YEARS[i], energy, attained, prices)}} : TRUE)

\* the whole function as a value: [df, summary], for the callers in the script
calculate_compliance_costs(name, fd, tonnes, prices) ==
    IF InputRejected(fd, tonnes)
    THEN [df |-> EmptyDataFrame, summary |-> EmptySummary]
    ELSE CHOOSE result \in
             {[df |-> DataFrame(lists.results_list),
               summary |-> [header |-> <<SummaryHeader(name, fd, tonnes, prices,
                                                       tonnes * fd[1].LHV)>>,
                            years |-> lists.annual_summary_parts]]
                  : lists \in {YearLoop(1, name, tonnes * fd[1].LHV,
                                        Co2eqTonnes(tonnes * fd[1].LHV, fd[1].GFI), prices,
                                        [results_list |-> <<>>,
                                         annual_summary_parts |-> <<>>])}} : TRUE

(***************************************************************************)
(* One call of calculate_compliance_costs, statement by statement          *)
(***************************************************************************)

\* the arguments the calls of the model are made with
FuelNameInputs == {"HFO", "bio-Methanol"}
LHVInputs == {-100, 0, 19900, 40200}
\* 0, a catalog value, the direct targets of 2035 and 2028, a value between
\* the two targets of 2028, the base target of 2028, the reference, and more
GFIInputs == {0, 50000, 531810, 680000, 774390, 800000, 895680, 933000, 1000000}
FuelDataInputs == {<<>>} \cup {<<[LHV |-> l, GFI |-> g]>> : l \in LHVInputs, g \in GFIInputs}
TonnesInputs == {-1000, 0, 1000, 5000}
PricingInputs == [surplus : {0, 380}, t1_user : {0, 150}, t2_user : {0, 500}]

\* lines 162-175: the session state of a new session
InitialSessionState ==
    [selected_comparison_fuels |-> <<>>,
     final_fuel_list |-> <<BENCHMARK_FUEL>>,
     tonnes_consumed |-> 5000,
     pricing |-> [surplus |-> 380, t1_user |-> 100, t2_user |-> 380],
     comparison_results_df |-> EmptyDataFrame,
     detailed_summaries |-> <<>>,
     show_results |-> FALSE]

\* the script before its first interaction: the widgets show their defaults
InitSession ==
    /\ session_state = InitialSessionState
    /\ compare_fuels_multi = <<>>
    /\ tonnes_consumed_input = 5000
    /\ price_inputs = [surplus |-> 380, t1_user |-> 100, t2_user |-> 380]
    /\ last_event = "load"
    /\ messages = <<>>
    /\ run_error = ""

\* the locals of a frame before the first statement has run
FrameLocalsUnset ==
    /\ total_energy_mj_y = 0
    /\ attained_co2eq_t_y = DecZero
    /\ summary_header = <<>>
    /\ year_i = 0
    /\ year_locals = <<>>
    /\ results_list = <<>>
    /\ annual_summary_parts = <<>>
    /\ ret = [df |-> EmptyDataFrame, summary |-> EmptySummary]
    /\ outcome = "none"

Init ==
    /\ fuel_name \in FuelNameInputs
    /\ fuel_data \in FuelDataInputs
    /\ tonnes_consumed \in TonnesInputs
    /\ pricing \in PricingInputs
    /\ pc = "call"
    /\ FrameLocalsUnset
    /\ InitSession

\* lines 44-45: the guard and the early return
EarlyReturn ==
    /\ pc = "call"
    /\ InputRejected(fuel_data, tonnes_consumed)
    /\ ret' = [df |-> EmptyDataFrame, summary |-> EmptySummary]
    /\ outcome' = "returned"
    /\ pc' = "done"
    /\ UNCHANGED <<fuel_name, fuel_data, tonnes_consumed, pricing, total_energy_mj_y,
                   attained_co2eq_t_y, summary_header, year_i, year_locals,
                   results_list, annual_summary_parts, session>>

\* lines 47-65: the totals, the header and the empty lists
Prologue ==
    /\ pc = "call"
    /\ ~InputRejected(fuel_data, tonnes_consumed)
    /\ total_energy_mj_y' = tonnes_consumed * fuel_data[1].LHV
    /\ attained_co2eq_t_y' = Co2eqTonnes(total_energy_mj_y', fuel_data[1].GFI)
    /\ summary_header' = <<SummaryHeader(fuel_name, fuel_data, tonnes_consumed, pricing,
                                         total_energy_mj_y')>>
    /\ results_list' = <<>>
    /\ annual_summary_parts' = <<>>
    /\ year_i' = 1
    /\ pc' = "loop"
    /\ UNCHANGED <<fuel_name, fuel_data, tonnes_consumed, pricing, year_locals,
                   ret, outcome, session>>

\* lines 67-132: one iteration of the loop over YEARS
YearIteration ==
    /\ pc = "loop"
    /\ year_i <= Len(YEARS)
    /\ LET l == YearLocals(YEARS[year_i], total_energy_mj_y, attained_co2eq_t_y, pricing)
       IN  /\ year_locals' = Append(year_locals, l)
           /\ annual_summary_parts' = Append(annual_summary_parts, YearText(l))
           /\ results_list' = Append(results_list, ResultRow(fuel_name, l))
    /\ year_i' = year_i + 1
    /\ UNCHANGED <<fuel_name, fuel_data, tonnes_consumed, pricing, pc, total_energy_mj_y,
                   attained_co2eq_t_y, summary_header, ret, outcome, session>>

\* lines 134-144: the data frame, the full text and the return
Return ==
    /\ pc = "loop"
    /\ year_i > Len(YEARS)
    /\ ret' = [df |-> DataFrame(results_list),
               summary |-> [header |-> summary_header, years |-> annual_summary_parts]]
    /\ outcome' = "returned"
    /\ pc' = "done"
    /\ UNCHANGED <<fuel_name, fuel_data, tonnes_consumed, pricing, total_energy_mj_y,
                   attained_co2eq_t_y, summary_header, year_i, year_locals,
                   results_list, annual_summary_parts, session>>

Next == EarlyReturn \/ Prologue \/ YearIteration \/ Return

Spec == Init /\ [][Next]_vars

(***************************************************************************)
(* The Streamlit script (lines 160-349).  Every interaction of the user is *)
(* one step: the widget takes its new value, its on_change callback runs,  *)
(* and the script runs again from the top.                                 *)
(***************************************************************************)

\* the longest selection of comparison fuels the model explores
MaxSel == 2

\* the values the user sets the number inputs to (min_value = 0.0)
TonnesChoices == {0, 1000, 5000}
SurplusPriceChoices == {0, 380}
T1PriceChoices == {100, 150}
T2PriceChoices == {380, 500}

\* the options the multiselect offers (line 205)
OptionSet == {COMPARISON_FUEL_OPTIONS[i] : i \in 1..Len(COMPARISON_FUEL_OPTIONS)}

\* a name that is no key of PREDEFINED_FUELS
ForeignFuel == "MGO"

Message(kind, text, arg) == [kind |-> kind, text |-> text, arg |-> arg]

NotBenchmark(f) == f # BENCHMARK_FUEL

\* lines 185-188
update_final_fuel_list(ss, user_selection) ==
    [ss EXCEPT !.final_fuel_list = <<BENCHMARK_FUEL>> \o SelectSeq(user_selection, NotBenchmark)]

\* faulty variant: the callback leaves the results in place
reset_calculation_keep_mut(ss, user_selection) == update_final_fuel_list(ss, user_selection)

\* lines 178-183
reset_calculation(ss, user_selection) ==
    update_final_fuel_list(
        [ss EXCEPT !.show_results = FALSE,
                   !.comparison_results_df = EmptyDataFrame,
                   !.detailed_summaries = <<>>],
        user_selection)

\* PREDEFINED_FUELS.get(fuel_name) (line 282): <<>> for None
FuelLookup(name) ==
    IF name \in DOMAIN PREDEFINED_FUELS THEN <<PREDEFINED_FUELS[name]>> ELSE <<>>

\* lines 282-293: the body of the loop for one fuel name
FuelStep(acc, name, tonnes, prices) ==
    IF FuelLookup(name) # <<>>
    THEN CHOOSE next \in
             {IF Len(r.df) > 0
              THEN [acc EXCEPT !.all_results_list = Append(@, r.df),
                               !.calculated_summaries = (name :> r.summary) @@ @]
              ELSE acc
                 : r \in {calculate_compliance_costs(name, FuelLookup(name), tonnes, prices)}}
             : TRUE
    ELSE [acc EXCEPT !.warnings =
              Append(@, Message("warning", "Could not find data for fuel", name))]

\* lines 281-293: the loop over final_fuel_list from its i-th name on
RECURSIVE FuelLoop(_, _, _, _, _)
FuelLoop(list, i, tonnes, prices, acc) ==
    IF i > Len(list) THEN acc
    ELSE FuelLoop(list, i + 1, tonnes, prices, FuelStep(acc, list[i], tonnes, prices))

\* pd.concat(frames, ignore_index=True) (line 296)
RECURSIVE Concat(_)
Concat(frames) ==
    IF frames = <<>> THEN <<>> ELSE Head(frames) \o Concat(Tail(frames))

\* lines 295-301: the session state and the messages after the loop
StoreResults(ss, acc) ==
    IF acc.all_results_list # <<>>
    THEN [ss |-> [ss EXCEPT !.show_results = TRUE,
                            !.comparison_results_df = Concat(acc.all_results_list),
                            !.detailed_summaries = acc.calculated_summaries],
          messages |-> acc.warnings]
    ELSE [ss |-> [ss EXCEPT !.show_results = TRUE,
                            !.comparison_results_df = EmptyDataFrame,
                            !.detailed_summaries = <<>>],
          messages |-> Append(acc.warnings,
              Message("error", "No valid results could be calculated.", ""))]

\* lines 269-301: the body of "if st.button(...)"; [ss, messages]
CalculateHandler(ss, user_selection) ==
    IF Len(ss.final_fuel_list) = 0
    THEN [ss |-> ss,
          messages |-> <<Message("error", "Please select at least one fuel to compare.", "")>>]
    ELSE IF ss.tonnes_consumed <= 0
    THEN [ss |-> reset_calculation(ss, user_selection),
          messages |-> <<Message("error", "Tonnes Consumed must be positive.", "")>>]
    ELSE CHOOSE done \in
             {StoreResults(ss, acc)
                 : acc \in {FuelLoop(ss.final_fuel_list, 1, ss.tonnes_consumed, ss.pricing,
                                     [all_results_list |-> <<>>,
                                      calculated_summaries |-> <<>>,
                                      warnings |-> <<>>])}} : TRUE

\* line 213: PREDEFINED_FUELS[f]['GFI'] for every f of a list of more than one
\* fuel raises KeyError for a name that is no key (line 216 reads the benchmark)
InfoLineRaises(list) ==
    Len(list) > 1 /\ \E i \in 1..Len(list) : list[i] \notin DOMAIN PREDEFINED_FUELS

\* lines 203-301: one run of the script on session state ss with the widget
\* values given; button is the value st.button returns in this run.  An
\* exception ends the run where it is raised.  [ss, messages, error]
ScriptRun(ss, user_selection, tonnes_in, prices_in, button) ==
    LET ss1 == update_final_fuel_list(
                   [ss EXCEPT !.selected_comparison_fuels = user_selection], user_selection)
        ss2 == [ss1 EXCEPT !.tonnes_consumed = tonnes_in, !.pricing = prices_in]
    IN  IF InfoLineRaises(ss1.final_fuel_list)
        THEN [ss |-> ss1, messages |-> <<>>, error |-> "KeyError"]
        ELSE IF button
        THEN CHOOSE out \in
                 {[ss |-> h.ss, messages |-> h.messages, error |-> ""]
                     : h \in {CalculateHandler(ss2, user_selection)}} : TRUE
        ELSE [ss |-> ss2, messages |-> <<>>, error |-> ""]

\* an interaction: the new widget values, the callback if a value changed,
\* then the run of the script
Interaction(event, user_selection, tonnes_in, prices_in, on_change, button) ==
    \E run \in {ScriptRun(IF on_change THEN reset_calculation(session_state, user_selection)
                                         ELSE session_state,
                            user_selection, tonnes_in, prices_in, button)} :
        /\ compare_fuels_multi' = user_selection
        /\ tonnes_consumed_input' = tonnes_in
        /\ price_inputs' = prices_in
        /\ session_state' = run.ss
        /\ messages' = run.messages
        /\ run_error' = run.error
        /\ last_event' = event
        /\ UNCHANGED frame

InSelection(f) == \E i \in 1..Len(compare_fuels_multi) : compare_fuels_multi[i] = f

\* lines 203-209: the user adds option f to the multiselect
SelectFuel(f) ==
    /\ pc = "idle"
    /\ ~InSelection(f)
    /\ Len(compare_fuels_multi) < MaxSel
    /\ Interaction("select", Append(compare_fuels_multi, f), tonnes_consumed_input,
                   price_inputs, TRUE, FALSE)

\* lines 203-209: the user removes the i-th selected fuel
DeselectFuel(i) ==
    /\ pc = "idle"
    /\ i \in 1..Len(compare_fuels_multi)
    /\ Interaction("deselect",
                   SubSeq(compare_fuels_multi, 1, i - 1)
                       \o SubSeq(compare_fuels_multi, i + 1, Len(compare_fuels_multi)),
                   tonnes_consumed_input, price_inputs, TRUE, FALSE)

\* lines 224-229
ChangeTonnes(t) ==
    /\ pc = "idle"
    /\ t # tonnes_consumed_input
    /\ Interaction("tonnes", compare_fuels_multi, t, price_inputs, TRUE, FALSE)

\* lines 236-240
ChangeSurplusPrice(v) ==
    /\ pc = "idle"
    /\ v # price_inputs.surplus
    /\ Interaction("surplus price", compare_fuels_multi, tonnes_consumed_input,
                   [price_inputs EXCEPT !.surplus = v], TRUE, FALSE)

\* lines 241-245
ChangeT1Price(v) ==
    /\ pc = "idle"
    /\ v # price_inputs.t1_user
    /\ Interaction("t1 price", compare_fuels_multi, tonnes_consumed_input,
                   [price_inputs EXCEPT !.t1_user = v], TRUE, FALSE)

\* lines 247-251
ChangeT2Price(v) ==
    /\ pc = "idle"
    /\ v # price_inputs.t2_user
    /\ Interaction("t2 price", compare_fuels_multi, tonnes_consumed_input,
                   [price_inputs EXCEPT !.t2_user = v], TRUE, FALSE)

\* line 269: the user presses "Calculate and Show Results"
PressCalculate ==
    /\ pc = "idle"
    /\ Interaction("calculate", compare_fuels_multi, tonnes_consumed_input,
                   price_inputs, FALSE, TRUE)

\* no call of calculate_compliance_costs is in progress between two runs
InitUI ==
    /\ fuel_name = BENCHMARK_FUEL
    /\ fuel_data = <<>>
    /\ tonnes_consumed = 0
    /\ pricing = [surplus |-> 380, t1_user |-> 100, t2_user |-> 380]
    /\ pc = "idle"
    /\ FrameLocalsUnset
    /\ InitSession

ChangeInputs ==
    \/ \E i \in 1..MaxSel + 1 : DeselectFuel(i)
    \/ \E t \in TonnesChoices : ChangeTonnes(t)
    \/ \E v \in SurplusPriceChoices : ChangeSurplusPrice(v)
    \/ \E v \in T1PriceChoices : ChangeT1Price(v)
    \/ \E v \in T2PriceChoices : ChangeT2Price(v)

NextUI ==
    \/ \E f \in OptionSet : SelectFuel(f)
    \/ ChangeInputs
    \/ PressCalculate

\* the script as written: the multiselect offers COMPARISON_FUEL_OPTIONS
SpecUI == InitUI /\ [][NextUI]_vars

NextForeign ==
    \/ \E f \in OptionSet \cup {ForeignFuel} : SelectFuel(f)
    \/ ChangeInputs
    \/ PressCalculate

\* the script run with a selection that may hold a name outside the catalog
SpecForeign == InitUI /\ [][NextForeign]_vars


(***************************************************************************)
(* Properties of calculate_compliance_costs, checked under Spec            *)
(***************************************************************************)

\* the input the claims call invalid: consumption or energy content not positive
InvalidInput ==
    IF fuel_data = <<>> THEN tonnes_consumed <= 0
    ELSE (tonnes_consumed <= 0 \/ fuel_data[1].LHV <= 0)

ValidInput == ~InputRejected(fuel_data, tonnes_consumed)

Positive(a) == DecGt(a, DecZero)

\* round half up to two decimals
RoundCents(a) ==
    LET c == (a.f + 5000) \div 10000
    IN  IF c = 100 THEN [w |-> a.w + 1, f |-> 0] ELSE [w |-> a.w, f |-> c * 10000]

\* C1 as stated: a call with tonnes consumed <= 0 or LHV <= 0 ends by raising
\* InvalidInputError.
C1_RaisesInvalidInputError ==
    (pc = "done" /\ InvalidInput) => outcome = "raised InvalidInputError"

\* C1 amended: a call with tonnes consumed <= 0 or LHV <= 0 raises nothing; it
\* returns an empty data frame and an empty summary, the check comes before any
\* arithmetic, and no per-year result is ever produced during the call.
C1_RejectsWithEmptyResult ==
    InvalidInput =>
        /\ total_energy_mj_y = 0 /\ attained_co2eq_t_y = DecZero /\ summary_header = <<>>
        /\ year_locals = <<>> /\ results_list = <<>> /\ annual_summary_parts = <<>>
        /\ ret.df = EmptyDataFrame
        /\ pc \in {"call", "done"}
        /\ pc = "done" => (outcome = "returned" /\ ret.summary = EmptySummary)

C1_Witness ==
    /\ pc = "done" /\ outcome = "returned" /\ ret.df = EmptyDataFrame
    /\ fuel_data # <<>> /\ tonnes_consumed = 0 /\ fuel_data[1].LHV > 0

\* C2 as stated: in every year of a valid call exactly one of (tier-1 deficit > 0
\* and surplus = 0) or (surplus > 0 and both deficits = 0) holds, the input
\* with attained emissions equal to the direct target included.
C2_ExactlyOneOfDeficitOrSurplus ==
    \A i \in 1..Len(year_locals) :
        LET l == year_locals[i]
            deficit == Positive(l.deficit_t1_co2) /\ DecIsZero(l.surplus_co2)
            surplus == /\ Positive(l.surplus_co2)
                       /\ DecIsZero(l.deficit_t1_co2) /\ DecIsZero(l.deficit_t2_co2)
        IN  (deficit \/ surplus) /\ ~(deficit /\ surplus)

\* C2 amended: in every year of a valid call a deficit and the surplus are never
\* both nonzero; attained > direct target gives tier-1 deficit > 0 and surplus
\* = 0; attained < direct target gives surplus > 0 and both deficits = 0; and
\* attained = direct target takes the surplus branch with the tier-1 deficit,
\* the tier-2 deficit and the surplus all zero.
C2_DeficitAndSurplusExclusive ==
    \A i \in 1..Len(year_locals) :
        LET l == year_locals[i]
            a == l.attained_co2eq_t_y
            t == l.target_co2_direct_t_y
        IN  /\ ~((Positive(l.deficit_t1_co2) \/ Positive(l.deficit_t2_co2))
                 /\ Positive(l.surplus_co2))
            /\ DecGt(a, t) => (Positive(l.deficit_t1_co2) /\ DecIsZero(l.surplus_co2))
            /\ DecGt(t, a) => /\ Positive(l.surplus_co2)
                              /\ DecIsZero(l.deficit_t1_co2) /\ DecIsZero(l.deficit_t2_co2)
            /\ a = t => /\ DecIsZero(l.surplus_co2)
                        /\ DecIsZero(l.deficit_t1_co2) /\ DecIsZero(l.deficit_t2_co2)
                        /\ l.compliance_status = "Surplus vs Direct Target"

C2_Witness ==
    /\ pc = "done" /\ Len(year_locals) = Len(YEARS)
    /\ year_locals[1].attained_co2eq_t_y = year_locals[1].target_co2_direct_t_y
    /\ Positive(year_locals[1].attained_co2eq_t_y)
    /\ Positive(year_locals[2].deficit_t1_co2)

\* C3: for the years up to 2030 the prices applied to the tier-1 and tier-2
\* deficits are 100 and 380 whatever the user prices are; from 2031 on they are
\* the user's tier-1 and tier-2 prices.
C3_TierPriceSelection ==
    \A i \in 1..Len(year_locals) :
        LET l == year_locals[i]
        IN  /\ l.year <= 2030 => (l.t1_price = 100 /\ l.t2_price = 380)
            /\ l.year >= 2031 => (l.t1_price = pricing.t1_user /\ l.t2_price = pricing.t2_user)
            /\ l.cost_t1 = DecMulInt(l.deficit_t1_co2, l.t1_price)
            /\ l.cost_t2 = DecMulInt(l.deficit_t2_co2, l.t2_price)

C3_Witness ==
    /\ pc = "done" /\ Len(year_locals) = Len(YEARS)
    /\ pricing.t1_user = 150 /\ pricing.t2_user = 500
    /\ Positive(year_locals[3].deficit_t2_co2) /\ year_locals[3].t1_price = 100
    /\ Positive(year_locals[4].deficit_t2_co2) /\ year_locals[4].t2_price = 500

\* C4 as stated: in the deficit case, when attained emissions do not exceed the
\* base target the status has "(compliant vs base)" appended to it.
C4_CompliantVsBaseAppended ==
    \A i \in 1..Len(year_locals) :
        LET l == year_locals[i]
        IN  (DecGt(l.attained_co2eq_t_y, l.target_co2_direct_t_y)
             /\ ~DecGt(l.attained_co2eq_t_y, l.target_co2_base_t_y))
            => l.compliance_status = "Deficit vs Direct Target (compliant vs base)"

\* C4 amended: in the deficit case, attained > base target gives tier-2 deficit
\* = attained - base target, tier-2 cost = tier-2 deficit * tier-2 price and
\* the status "Deficit vs Direct Target & Base Target"; otherwise the tier-2
\* deficit and cost stay zero and the status stays "Deficit vs Direct Target"
\* with nothing appended, so the two sub-cases still differ in the status.
C4_DeficitSubCases ==
    \A i \in 1..Len(year_locals) :
        LET l == year_locals[i]
            a == l.attained_co2eq_t_y
        IN  DecGt(a, l.target_co2_direct_t_y) =>
                IF DecGt(a, l.target_co2_base_t_y)
                THEN /\ l.deficit_t2_co2 = DecSub(a, l.target_co2_base_t_y)
                     /\ l.cost_t2 = DecMulInt(l.deficit_t2_co2, l.t2_price)
                     /\ l.compliance_status = "Deficit vs Direct Target & Base Target"
                ELSE /\ l.deficit_t2_co2 = DecZero
                     /\ l.cost_t2 = DecZero
                     /\ l.compliance_status = "Deficit vs Direct Target"

C4_Witness ==
    /\ pc = "done" /\ Len(year_locals) = Len(YEARS)
    /\ year_locals[1].compliance_status = "Deficit vs Direct Target"
    /\ year_locals[8].compliance_status = "Deficit vs Direct Target & Base Target"
    /\ Positive(year_locals[8].cost_t2)

\* C5: in every year net outcome + tier-1 cost + tier-2 cost is the surplus
\* revenue, and the net outcome is zero only when the revenue and both costs
\* are zero; the text of the year then reports a zero balance.
C5_NetOutcome ==
    \A i \in 1..Len(year_locals) :
        LET l == year_locals[i]
        IN  /\ DecAdd(DecAdd(l.net_outcome, l.cost_t1), l.cost_t2) = l.revenue_surplus
            /\ DecIsZero(l.net_outcome) =>
                   /\ DecIsZero(l.revenue_surplus)
                   /\ DecIsZero(l.cost_t1) /\ DecIsZero(l.cost_t2)
                   /\ annual_summary_parts[i].lines = <<TextLine("Net Outcome: $0.00", DecZero, 0)>>

C5_Witness ==
    /\ pc = "done" /\ Len(year_locals) = Len(YEARS)
    /\ year_locals[1].net_outcome.w < 0 /\ Positive(year_locals[1].cost_t2)
    /\ DecIsZero(year_locals[8].net_outcome) /\ Positive(year_locals[8].deficit_t1_co2)

\* the locals of every year for the call's inputs with the GFI replaced by g
LocalsWithGfi(g, i) ==
    YearLocals(YEARS[i], tonnes_consumed * fuel_data[1].LHV,
               Co2eqTonnes(tonnes_consumed * fuel_data[1].LHV, g), pricing)

\* C6: of two valid inputs that differ only in the GFI, the one with the larger
\* GFI has, in every year, a tier-1 deficit and a tier-2 deficit at least as
\* large and a surplus at most as large.
C6_MonotoneInGfi ==
    (pc = "done" /\ ValidInput) =>
        \A g2 \in GFIInputs :
            g2 > fuel_data[1].GFI =>
                \A i \in 1..Len(YEARS) :
                    \A l1 \in {year_locals[i]}, l2 \in {LocalsWithGfi(g2, i)} :
                        /\ DecGe(l2.deficit_t1_co2, l1.deficit_t1_co2)
                        /\ DecGe(l2.deficit_t2_co2, l1.deficit_t2_co2)
                        /\ DecGe(l1.surplus_co2, l2.surplus_co2)

C6_Witness ==
    /\ pc = "done" /\ ValidInput /\ fuel_data[1].GFI = 531810
    /\ Positive(year_locals[1].surplus_co2)
    /\ Positive(LocalsWithGfi(800000, 1).deficit_t1_co2)
    /\ Positive(LocalsWithGfi(933000, 1).deficit_t2_co2)

\* C7: in every year of the schedule the direct target intensity and emissions
\* are at most the base ones, the status never carries the warning "Exceeds
\* Base Target", and a positive tier-2 deficit is at most the tier-1 deficit.
C7_DirectTargetStricter ==
    \A i \in 1..Len(year_locals) :
        LET l == year_locals[i]
        IN  /\ l.target_gfi_direct <= l.target_gfi_base
            /\ DecGe(l.target_co2_base_t_y, l.target_co2_direct_t_y)
            /\ l.compliance_status # "Surplus vs Direct Target (Warning: Exceeds Base Target)"
            /\ Positive(l.deficit_t2_co2) => DecGe(l.deficit_t1_co2, l.deficit_t2_co2)

C7_Witness ==
    /\ pc = "done" /\ Len(year_locals) = Len(YEARS)
    /\ Positive(year_locals[1].surplus_co2)
    /\ Positive(year_locals[8].deficit_t2_co2)
    /\ DecGt(year_locals[8].deficit_t1_co2, year_locals[8].deficit_t2_co2)

\* the scenario of C8: LHV 19900, GFI 5.00, 5000 t, surplus price 380; year 2028 done
C8_Scenario ==
    /\ fuel_data = <<[LHV |-> 19900, GFI |-> 50000]>>
    /\ tonnes_consumed = 5000
    /\ pricing.surplus = 380
    /\ Len(year_locals) >= 1

\* the figures of the scenario other than the revenue
C8_OtherFigures ==
    LET l == year_locals[1]
    IN  /\ l.year = 2028 /\ l.base_reduction_pct = 40 /\ l.direct_reduction_pct = 170
        /\ total_energy_mj_y = 99500000
        /\ l.attained_co2eq_t_y = [w |-> 497, f |-> 500000]
        /\ l.target_gfi_direct = 774390
        /\ RoundCents(l.target_co2_direct_t_y) = [w |-> 7705, f |-> 180000]
        /\ l.compliance_status = "Surplus vs Direct Target"
        /\ RoundCents(l.surplus_co2) = [w |-> 7207, f |-> 680000]
        /\ l.cost_t1 = DecZero /\ l.cost_t2 = DecZero
        /\ l.net_outcome = l.revenue_surplus

\* C8 as stated: in the scenario the surplus revenue of 2028 is $2,738,919.70
\* to the cent (with the other figures as listed).
C8_ScenarioAsStated ==
    C8_Scenario =>
        /\ C8_OtherFigures
        /\ RoundCents(year_locals[1].revenue_surplus) = [w |-> 2738919, f |-> 700000]

\* C8 amended: in the scenario the year 2028 is a surplus year with total energy
\* 99,500,000 MJ, attained 497.5 t, direct target 7,705.18 t, surplus
\* 7,207.68 t, no tier cost, surplus revenue $2,738,918.59 (7,207.6805 t at
\* $380) and a net outcome equal to the revenue.
C8_ScenarioFigures ==
    C8_Scenario =>
        /\ C8_OtherFigures
        /\ year_locals[1].revenue_surplus = [w |-> 2738918, f |-> 590000]

C8_Witness ==
    /\ C8_Scenario /\ pc = "done"
    /\ ret.df[1].RevenueSurplus = [w |-> 2738918, f |-> 590000]
    /\ ret.df[1].NetOutcomeM = [m |-> 2, u |-> 738918, n |-> 590000]

(***************************************************************************)
(* Properties of the Streamlit script                                      *)
(***************************************************************************)

Known(f) == f \in DOMAIN PREDEFINED_FUELS

\* the rows of df for fuel f and year y
RowsOf(df, f, y) == {j \in 1..Len(df) : df[j].Fuel = f /\ df[j].Year = y}

RECURSIVE FreshFrame(_, _, _)
FreshFrame(list, tonnes, prices) ==
    IF list = <<>> THEN <<>>
    ELSE calculate_compliance_costs(Head(list), FuelLookup(Head(list)), tonnes, prices).df
             \o FreshFrame(Tail(list), tonnes, prices)

\* the summaries a batch over list yields
FreshSummaries(list, tonnes, prices) ==
    [f \in {list[i] : i \in 1..Len(list)} |->
        calculate_compliance_costs(f, FuelLookup(f), tonnes, prices).summary]

\* results on display (lines 306-309) come from the inputs now on the page, and
\* the fuel list is the benchmark followed by fuels other than the benchmark
C10_Fresh ==
    LET ss == session_state
    IN  /\ ss.final_fuel_list[1] = BENCHMARK_FUEL
        /\ \A i \in 2..Len(ss.final_fuel_list) : ss.final_fuel_list[i] # BENCHMARK_FUEL
        /\ (ss.show_results /\ Len(ss.comparison_results_df) > 0) =>
               /\ ss.final_fuel_list = <<BENCHMARK_FUEL>> \o compare_fuels_multi
               /\ ss.tonnes_consumed = tonnes_consumed_input
               /\ ss.pricing = price_inputs
               /\ ss.comparison_results_df
                      = FreshFrame(ss.final_fuel_list, tonnes_consumed_input, price_inputs)
               /\ ss.detailed_summaries
                      = FreshSummaries(ss.final_fuel_list, tonnes_consumed_input, price_inputs)

\* a step that changes an input clears the results, and only a press of
\* Calculate brings results back
C10_ChangeResets ==
    /\ (\/ compare_fuels_multi' # compare_fuels_multi
        \/ tonnes_consumed_input' # tonnes_consumed_input
        \/ price_inputs' # price_inputs)
       => /\ ~session_state'.show_results
          /\ session_state'.comparison_results_df = EmptyDataFrame
          /\ session_state'.detailed_summaries = <<>>
    /\ (session_state'.show_results /\ session_state' # session_state)
       => last_event' = "calculate"

\* C10: whenever results are shown they were computed from the current fuel
\* list, consumption and prices; every change of an input sets show_results to
\* false and empties the results and the summaries until Calculate is pressed
\* again; the fuel list always has the benchmark HFO first and exactly once.
C10_NeverStale == [](C10_Fresh) /\ [][C10_ChangeResets]_vars

C10_Witness ==
    /\ session_state.show_results
    /\ Len(session_state.comparison_results_df) = 3 * Len(YEARS)
    /\ session_state.final_fuel_list = <<"HFO", "bio-Methanol", "LNG">>
    /\ tonnes_consumed_input = 1000 /\ price_inputs.t2_user = 500
    /\ last_event = "calculate"

====
